---- MODULE Spec2Model ----
(***************************************************************************)
(* Model of the Novation Launchpad Pro MK3 control surface,                *)
(* libs/surfaces/launchpad_pro/lppro.cc: the SysEx codec, the per-layout   *)
(* note <-> (col,row) tables, the pad registry, the device-mode messages   *)
(* and the inbound MIDI handlers.                                          *)
(*                                                                         *)
(* Bytes are integers 0..255.  A C++ vector is a sequence: element i of    *)
(* the vector (counted from 0) is element i + 1 of the sequence, read with *)
(* VecAt and tested with InVec.                                            *)
(***************************************************************************)
EXTENDS Integers, Sequences, FiniteSets, TLC

VARIABLES
    current_layout,       \* LaunchPadPro::_current_layout
    pad_map,              \* LaunchPadPro::pad_map: pad id -> << color, mode >> of the Pad
    emitted,              \* what the last operation handed to the ports, in order
    trace,                \* the diagnostics the last operation printed, in order
    fault,                \* undefined behaviour met by the last operation
    alive,                \* FALSE once the process has aborted
    last_op               \* the last operation called, with its arguments

vars == << current_layout, pad_map, emitted, trace, fault, alive, last_op >>

(***************************************************************************)
(* Bounds of the model                                                     *)
(***************************************************************************)
MaxTextLen == 2

(***************************************************************************)
(* Byte helpers                                                            *)
(***************************************************************************)
\* conversion of an int to MIDI::byte (unsigned char) by push_back
Byte(x) == x % 256

RECURSIVE BitAnd(_, _)
\* the C operator & on non-negative integers
BitAnd(a, b) ==
    IF a = 0 \/ b = 0 THEN 0
    ELSE (IF a % 2 = 1 /\ b % 2 = 1 THEN 1 ELSE 0) + 2 * BitAnd(a \div 2, b \div 2)

\* the SysEx terminator every builder pushes last
SysexEnd == 247

\* static const std::vector<MIDI::byte> sysex_header: f0 00 20 29 02 0e
sysex_header == << 240, 0, 32, 41, 2, 14 >>

(***************************************************************************)
(* Layouts                                                                 *)
(***************************************************************************)
AllLayouts ==
    << "SessionLayout", "Fader", "ChordLayout", "CustomLayout", "NoteLayout",
       "Scale", "SequencerSettings", "SequencerSteps", "SequencerVelocity",
       "SequencerPatternSettings", "SequencerProbability", "SequencerMutation",
       "SequencerMicroStep", "SequencerProjects", "SequencerPatterns",
       "SequencerTempo", "SequencerSwing", "ProgrammerLayout", "Settings",
       "CustomSettings" >>

\* the integer value of a Layout enumerator: its position in the enumeration
LayoutValue(l) == (CHOOSE i \in 1..Len(AllLayouts) : AllLayouts[i] = l) - 1

\* AllLayouts[i] as the C array read: outside the array the read is undefined
\* and yields any layout value
AllLayoutsRead(i) ==
    IF i >= 0 /\ i < Len(AllLayouts)
    THEN { [value |-> AllLayouts[i + 1], fault |-> "none"] }
    ELSE { [value |-> AllLayouts[k], fault |-> "oob_read"] : k \in 1..Len(AllLayouts) }

(***************************************************************************)
(* Layout tables                                                           *)
(***************************************************************************)
\* static const XY_Note_Map maps[]: maps[layout][row][col]; only the Session
\* map is compiled, the others are inside #if 0
maps ==
    << << << 81, 82, 83, 84, 85, 86, 87, 88 >>,
          << 71, 72, 73, 74, 75, 76, 77, 78 >>,
          << 61, 62, 63, 64, 65, 66, 67, 68 >>,
          << 51, 52, 53, 54, 55, 56, 57, 58 >>,
          << 41, 42, 43, 44, 45, 46, 47, 48 >>,
          << 31, 32, 33, 34, 35, 36, 37, 38 >>,
          << 21, 22, 23, 24, 25, 26, 27, 28 >>,
          << 11, 12, 14, 13, 15, 16, 17, 18 >> >> >>

\* const size_t num_layouts = sizeof (maps) / sizeof (maps[0])
num_layout_maps == Len(maps)

note_xy_index(layout, note) == (layout * 127) + note

xy_note_index(layout, col, row) == (layout * 64) + (row * 8) + col

\* the (layout, row, col) the nested loops of build_layout_maps visit k-th
LoopLayout(k) == k \div 64
LoopRow(k) == (k % 64) \div 8
LoopCol(k) == k % 8

\* v[i] of a vector, i counted from 0, and whether i is inside the vector
VecAt(v, i) == v[i + 1]
InVec(v, i) == i >= 0 /\ i < Len(v)

\* a vector of the given size, value-initialised to 0 by resize, after the
\* assignments W[1], W[2], ... (each [idx, val]) made in this order: every
\* slot holds the value of the last assignment made to it
VecAfterWrites(size, W) ==
    [p \in 1..size |->
        LET ks == { k \in DOMAIN W : W[k].idx = p - 1 }
        IN  IF ks = {} THEN 0 ELSE W[CHOOSE k \in ks : \A j \in ks : j <= k].val]

\* the assignments of the first loop nest of build_layout_maps, in loop order
ForwardWrites ==
    [k \in 1..(num_layout_maps * 64) |->
        [idx |-> xy_note_index(LoopLayout(k - 1), LoopCol(k - 1), LoopRow(k - 1)),
         val |-> maps[LoopLayout(k - 1) + 1][LoopRow(k - 1) + 1][LoopCol(k - 1) + 1]]]

\* the assignments of the second loop nest, which reads the forward table fwd
InverseWrites(fwd) ==
    [k \in 1..(num_layout_maps * 64) |->
        [idx |-> note_xy_index(LoopLayout(k - 1),
                               VecAt(fwd, xy_note_index(LoopLayout(k - 1), LoopCol(k - 1),
                                                        LoopRow(k - 1)))),
         val |-> LoopRow(k - 1) * 8 + LoopCol(k - 1)]]

\* build_layout_maps: resize (value-initialised to 0), then the two loop nests
build_layout_maps ==
    LET fwd == VecAfterWrites(num_layout_maps * 64, ForwardWrites)
        inv == VecAfterWrites(128 * num_layout_maps, InverseWrites(fwd))
    IN  [xy_note |-> fwd, note_xy |-> inv]

\* the two tables as the constructor leaves them; nothing writes them later,
\* so they are constants of the state machine
layout_xy_note_map == build_layout_maps.xy_note
layout_note_xy_map == build_layout_maps.note_xy

\* note_to_xy: the possible results of the table read.  An index outside the
\* vector is undefined behaviour: the read yields some int, or the process dies.
OobReadValues == { 0, 27, 64 }

\* note_to_xy with the two halves of the coordinate exchanged
note_to_xy_swapped(note) ==
    LET idx == note_xy_index(LayoutValue(current_layout), note)
    IN  IF InVec(layout_note_xy_map, idx)
        THEN { [xy |-> << VecAt(layout_note_xy_map, idx) \div 8,
                          VecAt(layout_note_xy_map, idx) % 8 >>,
                fault |-> "none", alive |-> TRUE] }
        ELSE { [xy |-> << c \div 8, c % 8 >>, fault |-> "oob_read", alive |-> TRUE]
                 : c \in OobReadValues }
             \cup { [xy |-> << 0, 0 >>, fault |-> "oob_read", alive |-> FALSE] }

note_to_xy(note) ==
    LET idx == note_xy_index(LayoutValue(current_layout), note)
    IN  IF InVec(layout_note_xy_map, idx)
        THEN { [xy |-> << VecAt(layout_note_xy_map, idx) % 8,
                          VecAt(layout_note_xy_map, idx) \div 8 >>,
                fault |-> "none", alive |-> TRUE] }
        ELSE { [xy |-> << c % 8, c \div 8 >>, fault |-> "oob_read", alive |-> TRUE]
                 : c \in OobReadValues }
             \cup { [xy |-> << 0, 0 >>, fault |-> "oob_read", alive |-> FALSE] }

(***************************************************************************)
(* Pad registry                                                            *)
(***************************************************************************)
\* const PadID all_pad_ids[]
all_pad_ids ==
    << "Shift", "Left", "Right", "Session", "Note", "Chord", "Custom", "Sequencer",
       "Projects", "Patterns", "Steps", "PatternSettings", "Velocity", "Probability",
       "Mutation", "MicroStep", "PrintToClip", "StopClip", "Device", "Sends", "Pan",
       "Volume", "Solo", "Mute", "RecordArm", "CaptureMIDI", "Play", "FixedLength",
       "Quantize", "Duplicate", "Clear", "Down", "Up", "Lower1", "Lower2", "Lower3",
       "Lower4", "Lower5", "Lower6", "Lower7", "Lower8" >>

\* the integer value of each PadID enumerator (declared in lppro.h)
PadIDValue ==
    [ Shift |-> 90, Left |-> 91, Right |-> 92, Session |-> 93, Note |-> 94,
      Chord |-> 95, Custom |-> 96, Sequencer |-> 97, Projects |-> 98,
      Patterns |-> 89, Steps |-> 79, PatternSettings |-> 69, Velocity |-> 59,
      Probability |-> 49, Mutation |-> 39, MicroStep |-> 29, PrintToClip |-> 19,
      StopClip |-> 8, Device |-> 7, Sends |-> 6, Pan |-> 5, Volume |-> 4,
      Solo |-> 3, Mute |-> 2, RecordArm |-> 1,
      CaptureMIDI |-> 10, Play |-> 20, FixedLength |-> 30, Quantize |-> 40,
      Duplicate |-> 50, Clear |-> 60, Down |-> 70, Up |-> 80,
      Lower1 |-> 101, Lower2 |-> 102, Lower3 |-> 103, Lower4 |-> 104,
      Lower5 |-> 105, Lower6 |-> 106, Lower7 |-> 107, Lower8 |-> 108 ]

\* Pad::ColorMode and the byte each mode is sent as
ColorModes == { "Static", "Flashing", "Pulsing" }
ColorModeValue == [ Static |-> 0, Flashing |-> 1, Pulsing |-> 2 ]

\* Pad (id): an edge pad, without grid position, dark.  state is the part of
\* a Pad that Pad::set changes, << color, mode >>.
EdgePad(id) == [id |-> id, row |-> -1, col |-> -1, state |-> << 0, "Static" >>]

\* Pad (pid, row, col): a grid pad, dark
GridPad(pid, row, col) == [id |-> pid, row |-> row, col |-> col, state |-> << 0, "Static" >>]

\* the insertions of build_pad_map in program order: 41 EDGE_PAD lines, then
\* the 8x8 grid with pid = (11 + (row * 10)) + col
PadInsertions ==
    [k \in 1..Len(all_pad_ids) |-> EdgePad(PadIDValue[all_pad_ids[k]])]
    \o [k \in 1..64 |->
          GridPad((11 + (((k - 1) \div 8) * 10)) + ((k - 1) % 8), (k - 1) \div 8, (k - 1) % 8)]

\* pad_map.insert of the pads ins in turn, going on after an id that is
\* already there instead of aborting
InsertAll_keep_going(ins) ==
    LET n    == Len(ins)
        ids  == { ins[k].id : k \in 1..n }
        first(i) == CHOOSE k \in 1..n :
                       /\ ins[k].id = i
                       /\ \A j \in 1..(k - 1) : ins[j].id # i
    IN  [map |-> [i \in ids |-> ins[first(i)]], ok |-> TRUE]

\* pad_map.insert of the pads ins in turn: std::map keeps the first pad
\* inserted under an id, and the code aborts on an id that is already there
InsertAll(ins) ==
    LET n    == Len(ins)
        ids  == { ins[k].id : k \in 1..n }
        first(i) == CHOOSE k \in 1..n :
                       /\ ins[k].id = i
                       /\ \A j \in 1..(k - 1) : ins[j].id # i
    IN  [map |-> [i \in ids |-> ins[first(i)]],
         ok  |-> \A j, k \in 1..n : (j < k) => (ins[j].id # ins[k].id)]

\* build_pad_map, with its closing assert on the size
build_pad_map ==
    LET r == InsertAll(PadInsertions)
    IN  [map |-> r.map,
         ok  |-> r.ok /\ Cardinality(DOMAIN r.map) = (64 + (5 * 8) + 1)]

\* pad_by_id: TRUE when the id is registered (the code returns a pointer or null)
pad_by_id(pid) == pid \in DOMAIN pad_map

\* Pad::set on the << color, mode >> of a pad: stores colour and mode; a
\* colour that does not fit 7 bits is rejected and the pad is left as it was
Pad_set(pad, color, mode) ==
    IF color \in 0..127 THEN << color, mode >> ELSE pad

\* Pad::state_msg of the pad with this id: the per-pad colour message (pad
\* code, colour, mode)
Pad_state_msg(id, pad) == << Byte(id), Byte(pad[1]), ColorModeValue[pad[2]] >>

(***************************************************************************)
(* Port writes                                                             *)
(***************************************************************************)
\* MIDISurface::write: a message handed to the surface's output port
Write(bytes) == [kind |-> "write", bytes |-> bytes, usec |-> 0]

\* daw_write: a message handed to the DAW output port
DawWrite(bytes) == [kind |-> "daw_write", bytes |-> bytes, usec |-> 0]

\* g_usleep: the calling thread sleeps
Sleep(usec) == [kind |-> "sleep", bytes |-> << >>, usec |-> usec]

\* the messages among the items an operation handed out
Messages(items) == { items[i].bytes : i \in { j \in 1..Len(items) : items[j].kind # "sleep" } }

(***************************************************************************)
(* Operations.  Each operator gives the set of outcomes of one call in the *)
(* current state: the layout, the registry, the items handed to the ports, *)
(* the diagnostics, the fault met and whether the process is still alive.  *)
(***************************************************************************)
\* the outcome of a call that does nothing
Quiet ==
    [layout |-> current_layout, pads |-> pad_map, emitted |-> << >>, trace |-> << >>,
     fault |-> "none", alive |-> TRUE]

Line(text, a, b) == [text |-> text, a |-> a, b |-> b]

\* handle_midi_sysex reading the layout list one entry too far
handle_midi_sysex_shifted(raw_bytes, sz) ==
    IF sz < Len(sysex_header) + 1 THEN { Quiet }
    ELSE LET body(i) == raw_bytes[Len(sysex_header) + i + 1]
         IN  IF body(0) = 0
             THEN IF sz < Len(sysex_header) + 2 THEN { Quiet }
                  ELSE IF body(1) < Len(AllLayouts)
                       THEN { [Quiet EXCEPT !.layout = r.value, !.fault = r.fault,
                                            !.trace = << Line("Current layout", LayoutValue(r.value), 0) >>]
                                : r \in AllLayoutsRead(body(1) + 1) }
                       ELSE { [Quiet EXCEPT !.trace = << Line("ignore illegal layout index", body(1), 0) >>] }
             ELSE { Quiet }

\* handle_midi_sysex accepting an index equal to the number of layouts
handle_midi_sysex_inclusive(raw_bytes, sz) ==
    IF sz < Len(sysex_header) + 1 THEN { Quiet }
    ELSE LET body(i) == raw_bytes[Len(sysex_header) + i + 1]
         IN  IF body(0) = 0
             THEN IF sz < Len(sysex_header) + 2 THEN { Quiet }
                  ELSE IF body(1) <= Len(AllLayouts)
                       THEN { [Quiet EXCEPT !.layout = r.value, !.fault = r.fault,
                                            !.trace = << Line("Current layout", LayoutValue(r.value), 0) >>]
                                : r \in AllLayoutsRead(body(1)) }
                       ELSE { [Quiet EXCEPT !.trace = << Line("ignore illegal layout index", body(1), 0) >>] }
             ELSE { Quiet }

\* handle_midi_sysex without the switch on the command byte
handle_midi_sysex_any_command(raw_bytes, sz) ==
    IF sz < Len(sysex_header) + 1 THEN { Quiet }
    ELSE LET body(i) == raw_bytes[Len(sysex_header) + i + 1]
         IN  IF sz < Len(sysex_header) + 2 THEN { Quiet }
             ELSE IF body(1) < Len(AllLayouts)
                  THEN { [Quiet EXCEPT !.layout = r.value, !.fault = r.fault,
                                       !.trace = << Line("Current layout", LayoutValue(r.value), 0) >>]
                           : r \in AllLayoutsRead(body(1)) }
                  ELSE { [Quiet EXCEPT !.trace = << Line("ignore illegal layout index", body(1), 0) >>] }

\* handle_midi_sysex (parser, raw_bytes, sz)
handle_midi_sysex(raw_bytes, sz) ==
    IF sz < Len(sysex_header) + 1 THEN { Quiet }
    ELSE LET body(i) == raw_bytes[Len(sysex_header) + i + 1]   \* raw_bytes += header size
         IN  IF body(0) = 0
             THEN IF sz < Len(sysex_header) + 2 THEN { Quiet }
                  ELSE IF body(1) < Len(AllLayouts)
                       THEN { [Quiet EXCEPT !.layout = r.value, !.fault = r.fault,
                                            !.trace = << Line("Current layout", LayoutValue(r.value), 0) >>]
                                : r \in AllLayoutsRead(body(1)) }
                       ELSE { [Quiet EXCEPT !.trace = << Line("ignore illegal layout index", body(1), 0) >>] }
             ELSE { Quiet }

\* handle_midi_controller_message: a debug trace only
handle_midi_controller_message(ev) ==
    { [Quiet EXCEPT !.trace = << Line("CC", ev.controller_number, ev.value) >>] }

\* handle_midi_note_off_message: a debug trace only
handle_midi_note_off_message(ev) ==
    { [Quiet EXCEPT !.trace = << Line("Note Off", ev.note_number, ev.velocity) >>] }

\* handle_midi_note_on_message without the test for velocity 0
handle_midi_note_on_message_no_alias(ev) ==
    { [Quiet EXCEPT !.fault = c.fault, !.alive = c.alive,
                    !.trace = IF c.alive
                              THEN << Line("Note On", ev.note_number, ev.velocity),
                                      Line("xy", c.xy[1], c.xy[2]) >>
                              ELSE << Line("Note On", ev.note_number, ev.velocity) >>]
        : c \in note_to_xy(ev.note_number) }

\* handle_midi_note_on_message: velocity 0 is a note off; otherwise the
\* coordinate of the note in the current layout is looked up and printed
handle_midi_note_on_message(ev) ==
    IF ev.velocity = 0 THEN handle_midi_note_off_message(ev)
    ELSE { [Quiet EXCEPT !.fault = c.fault, !.alive = c.alive,
                         !.trace = IF c.alive
                                   THEN << Line("Note On", ev.note_number, ev.velocity),
                                           Line("xy", c.xy[1], c.xy[2]) >>
                                   ELSE << Line("Note On", ev.note_number, ev.velocity) >>]
             : c \in note_to_xy(ev.note_number) }

\* light_pad finding its pad with pad_map[pad_id], which constructs a dark
\* pad under an id that is not registered
light_pad_creating(pad_id, color, mode) ==
    LET old == IF pad_by_id(pad_id) THEN pad_map[pad_id] ELSE << 0, "Static" >>
        pad == Pad_set(old, color, mode)
    IN  { [Quiet EXCEPT !.pads = [i \in (DOMAIN pad_map) \cup { pad_id } |->
                                     IF i = pad_id THEN pad ELSE pad_map[i]],
                        !.emitted = << DawWrite(Pad_state_msg(pad_id, pad)) >>] }

\* light_pad (pad_id, color, mode)
light_pad(pad_id, color, mode) ==
    IF ~pad_by_id(pad_id) THEN { Quiet }
    ELSE LET pad == Pad_set(pad_map[pad_id], color, mode)
         IN  { [Quiet EXCEPT !.pads = [pad_map EXCEPT ![pad_id] = pad],
                             !.emitted = << DawWrite(Pad_state_msg(pad_id, pad)) >>] }

\* pad_off setting colour 0 and keeping the mode the pad has
pad_off_keep_mode(pad_id) ==
    IF ~pad_by_id(pad_id) THEN { Quiet }
    ELSE LET pad == Pad_set(pad_map[pad_id], 0, pad_map[pad_id][2])
         IN  { [Quiet EXCEPT !.pads = [pad_map EXCEPT ![pad_id] = pad],
                             !.emitted = << DawWrite(Pad_state_msg(pad_id, pad)) >>] }

\* pad_off (pad_id)
pad_off(pad_id) ==
    IF ~pad_by_id(pad_id) THEN { Quiet }
    ELSE LET pad == Pad_set(pad_map[pad_id], 0, "Static")
         IN  { [Quiet EXCEPT !.pads = [pad_map EXCEPT ![pad_id] = pad],
                             !.emitted = << DawWrite(Pad_state_msg(pad_id, pad)) >>] }

\* the loop of all_pads_off from n on: the bytes (0x0, i, 13) of every i with
\* n <= i < 32, in order
AllPadsOffBody(n) ==
    [k \in 1..(3 * (32 - n)) |->
        CASE k % 3 = 1 -> 0
          [] k % 3 = 2 -> Byte(n + ((k - 1) \div 3))
          [] OTHER     -> 13]

\* all_pads_off that also darkens every pad record
all_pads_off_clearing ==
    { [Quiet EXCEPT !.pads = [i \in DOMAIN pad_map |-> << 0, "Static" >>],
                    !.emitted =
         << DawWrite(sysex_header \o << 3 >> \o AllPadsOffBody(1) \o << SysexEnd >>) >>] }

\* all_pads_off ()
all_pads_off ==
    { [Quiet EXCEPT !.emitted =
         << DawWrite(sysex_header \o << 3 >> \o AllPadsOffBody(1) \o << SysexEnd >>) >>] }

\* all_pads_on (color)
all_pads_on(color) ==
    { [Quiet EXCEPT !.emitted =
         << DawWrite(sysex_header \o << 14, Byte(BitAnd(color, 127)), SysexEnd >>) >>] }

\* set_layout pushing the page before the layout
set_layout_page_first(l, page) ==
    { [Quiet EXCEPT !.emitted =
         << DawWrite(sysex_header \o << 0, Byte(page), Byte(LayoutValue(l)), 0, SysexEnd >>) >>,
                    !.trace = << Line("switch to layout", LayoutValue(l), 0) >>] }

\* set_layout (l, page)
set_layout(l, page) ==
    { [Quiet EXCEPT !.emitted =
         << DawWrite(sysex_header \o << 0, Byte(LayoutValue(l)), Byte(page), 0, SysexEnd >>) >>,
                    !.trace = << Line("switch to layout", LayoutValue(l), 0) >>] }

\* set_device_mode writing the two Standalone messages back to back
set_device_mode_no_sleep(m) ==
    CASE m = "Standalone" ->
           { [Quiet EXCEPT !.emitted = << Write(sysex_header \o << 14, 0, SysexEnd >>),
                                          Write(sysex_header \o << 16, 0, SysexEnd >>) >>,
                           !.trace = << Line("entering standalone mode", 0, 0) >>] }
      [] m = "DAW" ->
           { [Quiet EXCEPT !.emitted = << Write(sysex_header \o << 16, 1, SysexEnd >>) >>] }
      [] m = "Programmer" ->
           { [Quiet EXCEPT !.emitted = << Write(sysex_header \o << 14, 1, SysexEnd >>) >>,
                           !.trace = << Line("entering programmer mode", 0, 0) >>] }

\* set_device_mode with the commented-out return to live state of the DAW
\* case (lines 499-504) compiled in
set_device_mode_daw_via_live(m) ==
    CASE m = "Standalone" ->
           { [Quiet EXCEPT !.emitted = << Write(sysex_header \o << 14, 0, SysexEnd >>),
                                          Sleep(100000),
                                          Write(sysex_header \o << 16, 0, SysexEnd >>) >>,
                           !.trace = << Line("entering standalone mode", 0, 0) >>] }
      [] m = "DAW" ->
           { [Quiet EXCEPT !.emitted = << DawWrite(sysex_header \o << 14, 0, SysexEnd >>),
                                          Sleep(100000),
                                          Write(sysex_header \o << 16, 1, SysexEnd >>) >>] }
      [] m = "Programmer" ->
           { [Quiet EXCEPT !.emitted = << Write(sysex_header \o << 14, 1, SysexEnd >>) >>,
                           !.trace = << Line("entering programmer mode", 0, 0) >>] }

\* set_device_mode (m)
set_device_mode(m) ==
    CASE m = "Standalone" ->
           { [Quiet EXCEPT !.emitted = << Write(sysex_header \o << 14, 0, SysexEnd >>),
                                          Sleep(100000),
                                          Write(sysex_header \o << 16, 0, SysexEnd >>) >>,
                           !.trace = << Line("entering standalone mode", 0, 0) >>] }
      [] m = "DAW" ->
           { [Quiet EXCEPT !.emitted = << Write(sysex_header \o << 16, 1, SysexEnd >>) >>] }
      [] m = "Programmer" ->
           { [Quiet EXCEPT !.emitted = << Write(sysex_header \o << 14, 1, SysexEnd >>) >>,
                           !.trace = << Line("entering programmer mode", 0, 0) >>] }

\* v[i] = x on a std::vector held as a sequence; i counts from 0.  A write
\* past the end leaves the elements of the vector as they are.
VecSet(v, i, x) == IF i >= 0 /\ i < Len(v) THEN [v EXCEPT ![i + 1] = x] ELSE v

\* v.resize (n): truncates, or appends value-initialised (zero) bytes
VecResize(v, n) ==
    IF n <= Len(v) THEN SubSeq(v, 1, n) ELSE v \o [k \in 1..(n - Len(v)) |-> 0]

\* (MIDI::byte) (floor (1.f + (speed * 6.f))), speed counted in twelfths
SpeedByte(speed) == Byte(1 + (speed \div 2))

\* scroll_text (txt, color, loop, speed): txt is a sequence of char codes
\* 0..255, speed is counted in twelfths (speed = 6 is the float 0.5)
scroll_text(txt, color, loop, speed) ==
    LET msg == sysex_header \o << 50, Byte(color), IF loop THEN 1 ELSE 0 >>
                 \o [i \in 1..Len(txt) |-> BitAnd(txt[i], 247)]
                 \o << SysexEnd >>
        i1  == Len(sysex_header) + 3
        i2  == Len(sysex_header) + 4
        m1  == VecSet(msg, i1, SpeedByte(speed))
        m2  == VecSet(m1, i2, SysexEnd)
        m3  == VecResize(m2, Len(sysex_header) + 5)
    IN  IF speed = 0
        THEN { [Quiet EXCEPT !.emitted = << DawWrite(msg) >>] }
        ELSE IF i1 < Len(msg) /\ i2 < Len(m1)
        THEN { [Quiet EXCEPT !.emitted = << DawWrite(msg), DawWrite(m3) >>] }
        ELSE { [Quiet EXCEPT !.emitted = << DawWrite(msg), DawWrite(m3) >>,
                             !.fault = "oob_write"],
               [Quiet EXCEPT !.emitted = << DawWrite(msg) >>,
                             !.fault = "oob_write", !.alive = FALSE] }

\* begin_using_device entering DAW mode before it asks for the layout
begin_using_device_daw_first ==
    { [Quiet EXCEPT !.emitted = a.emitted
                                   \o << Write(sysex_header \o << 0, SysexEnd >>) >>
                                   \o b.emitted,
                    !.trace = a.trace \o b.trace]
        : a \in set_device_mode("DAW"), b \in set_layout("SessionLayout", 0) }

\* begin_using_device: the layout query, then DAW mode, then the Session layout
begin_using_device ==
    { [Quiet EXCEPT !.emitted = << Write(sysex_header \o << 0, SysexEnd >>) >>
                                   \o a.emitted \o b.emitted,
                    !.trace = a.trace \o b.trace]
        : a \in set_device_mode("DAW"), b \in set_layout("SessionLayout", 0) }

(***************************************************************************)
(* Inputs                                                                  *)
(***************************************************************************)
\* layout indices a layout-info message may carry
SysexIndexInputs == { 0, 2, 17, 19, 20, 21, 127, 255 }

\* a header that differs from the vendor header in its last byte
GarbledHeader == << 240, 0, 32, 41, 2, 13 >>

SysexInputs ==
    { sysex_header \o << 0, i, SysexEnd >> : i \in SysexIndexInputs }
    \cup { << >>, SubSeq(sysex_header, 1, 5), sysex_header,
           sysex_header \o << 0 >>, sysex_header \o << 14 >>,
           sysex_header \o << 0, 2 >>,
           sysex_header \o << 14, 1, SysexEnd >>,
           sysex_header \o << 16, 1, SysexEnd >>,
           sysex_header \o << 50, 2, SysexEnd >>,
           GarbledHeader \o << 0, 3, SysexEnd >>,
           GarbledHeader \o << 16, 3, SysexEnd >> }

NoteInputs == { 0, 13, 51, 127 }
VelocityInputs == { 0, 64 }
ControllerInputs == { 7 }
ValueInputs == { 0, 127 }
PadIdInputs == { 11, 90, 0 }
ColorInputs == { 5, 200 }
ModeInputs == { "Static", "Pulsing" }
LayoutInputs == { "SessionLayout", "Scale", "CustomSettings" }
PageInputs == { 0, 7 }
DeviceModes == { "Standalone", "DAW", "Programmer" }
CharInputs == { 65, 195 }
SpeedInputs == { 0, 12 }
TextColorInputs == { 5 }
FillColorInputs == { 1, 5, 200 }

RECURSIVE TextsOfLen(_)
TextsOfLen(n) ==
    IF n = 0 THEN { << >> }
    ELSE { Append(t, c) : t \in TextsOfLen(n - 1), c \in CharInputs }

TextInputs == UNION { TextsOfLen(n) : n \in 0..MaxTextLen }

(***************************************************************************)
(* The state machine                                                       *)
(***************************************************************************)
\* LaunchPadPro::LaunchPadPro: _current_layout (SessionLayout), then
\* build_pad_map and build_layout_maps
Init ==
    /\ current_layout = "SessionLayout"
    /\ pad_map = [id \in DOMAIN build_pad_map.map |-> build_pad_map.map[id].state]
    /\ emitted = << >>
    /\ trace = << >>
    /\ fault = "none"
    /\ alive = build_pad_map.ok
    /\ last_op = [op |-> "constructor"]

\* one call: one of the call's outcomes happens
Apply(op, outcomes) ==
    /\ \E r \in outcomes :
         /\ current_layout' = r.layout
         /\ pad_map' = r.pads
         /\ emitted' = r.emitted
         /\ trace' = r.trace
         /\ fault' = r.fault
         /\ alive' = r.alive
    /\ last_op' = op

\* Every operation below is a call made while the process is alive.
BeginUsingDevice ==
    /\ alive
    /\ Apply([op |-> "begin_using_device"], begin_using_device)

HandleMidiSysex ==
    /\ alive
    /\ \E raw \in SysexInputs :
          Apply([op |-> "handle_midi_sysex", raw_bytes |-> raw, sz |-> Len(raw)],
                handle_midi_sysex(raw, Len(raw)))

HandleMidiNoteOn ==
    /\ alive
    /\ \E n \in NoteInputs, v \in VelocityInputs :
          Apply([op |-> "handle_midi_note_on_message", note_number |-> n, velocity |-> v],
                handle_midi_note_on_message([note_number |-> n, velocity |-> v]))

HandleMidiNoteOff ==
    /\ alive
    /\ \E n \in NoteInputs, v \in VelocityInputs :
          Apply([op |-> "handle_midi_note_off_message", note_number |-> n, velocity |-> v],
                handle_midi_note_off_message([note_number |-> n, velocity |-> v]))

HandleMidiController ==
    /\ alive
    /\ \E c \in ControllerInputs, v \in ValueInputs :
          Apply([op |-> "handle_midi_controller_message", controller_number |-> c, value |-> v],
                handle_midi_controller_message([controller_number |-> c, value |-> v]))

LightPad ==
    /\ alive
    /\ \E id \in PadIdInputs, c \in ColorInputs, m \in ModeInputs :
          Apply([op |-> "light_pad", pad_id |-> id, color |-> c, mode |-> m],
                light_pad(id, c, m))

PadOff ==
    /\ alive
    /\ \E id \in PadIdInputs :
          Apply([op |-> "pad_off", pad_id |-> id], pad_off(id))

AllPadsOff ==
    /\ alive
    /\ Apply([op |-> "all_pads_off"], all_pads_off)

AllPadsOn ==
    /\ alive
    /\ \E c \in FillColorInputs :
          Apply([op |-> "all_pads_on", color |-> c], all_pads_on(c))

SetLayout ==
    /\ alive
    /\ \E l \in LayoutInputs, p \in PageInputs :
          Apply([op |-> "set_layout", l |-> l, page |-> p], set_layout(l, p))

SetDeviceMode ==
    /\ alive
    /\ \E m \in DeviceModes :
          Apply([op |-> "set_device_mode", m |-> m], set_device_mode(m))

ScrollText ==
    /\ alive
    /\ \E t \in TextInputs, c \in TextColorInputs, l \in BOOLEAN, s \in SpeedInputs :
          Apply([op |-> "scroll_text", txt |-> t, color |-> c, loop |-> l, speed |-> s],
                scroll_text(t, c, l, s))

Next ==
    \/ BeginUsingDevice
    \/ HandleMidiSysex
    \/ HandleMidiNoteOn
    \/ HandleMidiNoteOff
    \/ HandleMidiController
    \/ LightPad
    \/ PadOff
    \/ AllPadsOff
    \/ AllPadsOn
    \/ SetLayout
    \/ SetDeviceMode
    \/ ScrollText

Spec == Init /\ [][Next]_vars

(***************************************************************************)
(* Properties                                                              *)
(***************************************************************************)
\* the layouts build_layout_maps holds a note table for
LayoutsWithTable == { AllLayouts[k] : k \in 1..num_layout_maps }

\* a layout-info message as the device sends it
LayoutInfo(i) == sysex_header \o << 0, i, SysexEnd >>

\* the last call was handle_midi_sysex with command byte 0x00 and an index byte
LastWasLayoutInfo ==
    /\ last_op.op = "handle_midi_sysex"
    /\ last_op.sz >= Len(sysex_header) + 2
    /\ last_op.raw_bytes[Len(sysex_header) + 1] = 0

\* C1: round trip.  While a layout with a note table is current, looking up
\* the note recorded for (col,row) gives back exactly (col,row), for every
\* col and row in 0..7, with no fault.
C1_RoundTrip ==
    current_layout \in LayoutsWithTable =>
        \A col \in 0..7, row \in 0..7 :
            note_to_xy(VecAt(layout_xy_note_map,
                             xy_note_index(LayoutValue(current_layout), col, row)))
                = { [xy |-> << col, row >>, fault |-> "none", alive |-> TRUE] }

\* a note-on for note 13 (0x0d), which the Session table holds at column 3 of
\* row 7, was dispatched while Session was current and printed x 3, y 7
C1_Witness ==
    /\ last_op.op = "handle_midi_note_on_message"
    /\ last_op.note_number = 13
    /\ last_op.velocity # 0
    /\ current_layout = "SessionLayout"
    /\ trace = << Line("Note On", 13, last_op.velocity), Line("xy", 3, 7) >>

\* C2: write/confirm split.  Every step that changes current_layout is a
\* handle_midi_sysex call that receives a layout-info message (the header
\* F0 00 20 29 02 0E, command byte 0x00, an index) with an index below the
\* number of layouts, and it sets the layout of that index; no other
\* operation changes current_layout.
C2_LayoutWrittenOnlyBySysex ==
    [][ current_layout' # current_layout =>
          /\ last_op'.op = "handle_midi_sysex"
          /\ last_op'.sz >= Len(sysex_header) + 2
          /\ SubSeq(last_op'.raw_bytes, 1, Len(sysex_header)) = sysex_header
          /\ last_op'.raw_bytes[Len(sysex_header) + 1] = 0
          /\ last_op'.raw_bytes[Len(sysex_header) + 2] < Len(AllLayouts)
          /\ current_layout' = AllLayouts[last_op'.raw_bytes[Len(sysex_header) + 2] + 1]
      ]_vars

\* C3: layout confirmation.  From every state and for every index i in 0..19
\* the layout-info message with index i sets current_layout to the i-th entry
\* of AllLayouts (counted from 0) with no fault; and after every such call
\* made, current_layout is that entry.
C3_LayoutConfirmed ==
    /\ \A i \in 0..(Len(AllLayouts) - 1) :
           \A r \in handle_midi_sysex(LayoutInfo(i), Len(LayoutInfo(i))) :
               r.layout = AllLayouts[i + 1] /\ r.fault = "none" /\ r.pads = pad_map
    /\ (LastWasLayoutInfo /\ last_op.raw_bytes[Len(sysex_header) + 2] < Len(AllLayouts))
           => current_layout = AllLayouts[last_op.raw_bytes[Len(sysex_header) + 2] + 1]

\* the message F0 00 20 29 02 0E 00 02 F7 arrived and the third enumerated
\* layout is current
C3_Witness ==
    /\ last_op.op = "handle_midi_sysex"
    /\ last_op.raw_bytes = << 240, 0, 32, 41, 2, 14, 0, 2, 247 >>
    /\ current_layout = "ChordLayout"
    /\ AllLayouts[3] = "ChordLayout"

\* C4: a layout-info message whose index is 20 or more changes neither
\* current_layout nor the pad registry and reads nothing outside AllLayouts:
\* for every index byte 20..255 from every state, and in every such call made.
C4_IllegalIndexIgnored ==
    /\ \A i \in Len(AllLayouts)..255 :
           \A r \in handle_midi_sysex(LayoutInfo(i), Len(LayoutInfo(i))) :
               r.layout = current_layout /\ r.pads = pad_map /\ r.fault = "none" /\ r.alive
    /\ (LastWasLayoutInfo /\ last_op.raw_bytes[Len(sysex_header) + 2] >= Len(AllLayouts))
           => fault = "none" /\ alive

\* index 20 arrived while a layout other than the initial one was current,
\* was reported as illegal, and that layout is still current
C4_Witness ==
    /\ LastWasLayoutInfo
    /\ last_op.raw_bytes[Len(sysex_header) + 2] = 20
    /\ trace = << Line("ignore illegal layout index", 20, 0) >>
    /\ current_layout = "CustomSettings"
    /\ fault = "none"

\* return to live, the settle delay of 100 ms, disable DAW mode
StandaloneSequence ==
    << Write(<< 240, 0, 32, 41, 2, 14, 14, 0, 247 >>),
       Sleep(100000),
       Write(<< 240, 0, 32, 41, 2, 14, 16, 0, 247 >>) >>

\* C5: entering Standalone hands out exactly three items in this order: the
\* return-to-live message (header, 0x0E, 0x00, 0xF7), a sleep of 100 ms, the
\* disable-DAW-mode message (header, 0x10, 0x00, 0xF7); from every state, and
\* in every such call made.
C5_StandaloneSequence ==
    /\ \A r \in set_device_mode("Standalone") : r.emitted = StandaloneSequence
    /\ (last_op.op = "set_device_mode" /\ last_op.m = "Standalone")
           => emitted = StandaloneSequence

\* Standalone was entered: the sleep stands between the two messages
C5_Witness ==
    /\ last_op.op = "set_device_mode"
    /\ last_op.m = "Standalone"
    /\ Len(emitted) = 3
    /\ emitted[1].kind = "write" /\ emitted[2].kind = "sleep" /\ emitted[3].kind = "write"
    /\ emitted[2].usec >= 100000

\* C6: entering DAW mode hands out exactly one item, the message header,
\* 0x10, 0x01, 0xF7, and entering Programmer mode exactly one item, the
\* message header, 0x0E, 0x01, 0xF7; neither sleeps; from every state, and in
\* every such call made.
C6_SingleMessageModes ==
    /\ \A r \in set_device_mode("DAW") :
           r.emitted = << Write(<< 240, 0, 32, 41, 2, 14, 16, 1, 247 >>) >>
    /\ \A r \in set_device_mode("Programmer") :
           r.emitted = << Write(<< 240, 0, 32, 41, 2, 14, 14, 1, 247 >>) >>
    /\ (last_op.op = "set_device_mode" /\ last_op.m = "DAW")
           => emitted = << Write(<< 240, 0, 32, 41, 2, 14, 16, 1, 247 >>) >>
    /\ (last_op.op = "set_device_mode" /\ last_op.m = "Programmer")
           => emitted = << Write(<< 240, 0, 32, 41, 2, 14, 14, 1, 247 >>) >>

\* DAW mode was entered and one message, no sleep, was handed out
C6_Witness ==
    /\ last_op.op = "set_device_mode"
    /\ last_op.m = "DAW"
    /\ Len(emitted) = 1
    /\ emitted[1].kind = "write"
    /\ emitted[1].bytes[7] = 16 /\ emitted[1].bytes[8] = 1

\* a MIDI::EventTwoBytes of a note message
NoteEv(n, v) == [note_number |-> n, velocity |-> v]

\* C7: velocity-zero aliasing.  For every note 0..127 and in every state (so
\* under every current layout), a note-on with velocity 0 has exactly the
\* outcomes of a note-off with velocity 0, and the outcomes of a note-off with
\* any velocity differ from them only in the velocity printed; the state is
\* left as it was, no coordinate is looked up and none is printed.  Every
\* note-on with velocity 0 made left the Note Off line and no fault.
C7_VelocityZeroAliasing ==
    /\ \A n \in 0..127 :
          /\ handle_midi_note_on_message(NoteEv(n, 0)) = handle_midi_note_off_message(NoteEv(n, 0))
          /\ \A v \in { 0, 1, 64, 127 } :
                \A r \in handle_midi_note_on_message(NoteEv(n, 0)) :
                    \E q \in handle_midi_note_off_message(NoteEv(n, v)) :
                        /\ q.layout = r.layout /\ q.pads = r.pads /\ q.emitted = r.emitted
                        /\ q.fault = r.fault /\ q.alive = r.alive
                        /\ Len(q.trace) = 1 /\ Len(r.trace) = 1
                        /\ q.trace[1].text = r.trace[1].text /\ q.trace[1].a = r.trace[1].a
          /\ \A r \in handle_midi_note_on_message(NoteEv(n, 0)) :
                /\ r.layout = current_layout /\ r.pads = pad_map /\ r.emitted = << >>
                /\ r.fault = "none" /\ r.alive
                /\ \A k \in 1..Len(r.trace) : r.trace[k].text \notin { "Note On", "xy" }
    /\ (last_op.op = "handle_midi_note_on_message" /\ last_op.velocity = 0)
           => /\ trace = << Line("Note Off", last_op.note_number, 0) >>
              /\ fault = "none" /\ alive /\ emitted = << >>

\* a note-on with velocity 0 arrived while a layout without note table was
\* current (where a pressed pad would read outside the table) and was
\* dispatched as a note-off
C7_Witness ==
    /\ last_op.op = "handle_midi_note_on_message"
    /\ last_op.velocity = 0
    /\ last_op.note_number = 51
    /\ current_layout = "ProgrammerLayout"
    /\ trace = << Line("Note Off", 51, 0) >>

\* C8: an inbound SysEx that is not a complete layout-info message changes
\* nothing and fails nowhere: every prefix of up to 6 bytes of a layout-info
\* message, the 7-byte message with command byte 0x00 and no index, and every
\* message with a command byte 1..255 (with or without further bytes) have
\* the outcome of a call that does nothing; and after every such call made
\* nothing was printed or written and no fault occurred.
C8_IncompleteSysexIgnored ==
    /\ \A n \in 0..Len(sysex_header) :
           handle_midi_sysex(SubSeq(LayoutInfo(2), 1, n), n) = { Quiet }
    /\ handle_midi_sysex(sysex_header \o << 0 >>, Len(sysex_header) + 1) = { Quiet }
    /\ \A cmd \in 1..255 :
          /\ handle_midi_sysex(sysex_header \o << cmd >>, Len(sysex_header) + 1) = { Quiet }
          /\ \A i \in SysexIndexInputs :
                handle_midi_sysex(sysex_header \o << cmd, i, SysexEnd >>, Len(sysex_header) + 3)
                    = { Quiet }
    /\ (last_op.op = "handle_midi_sysex" /\ ~LastWasLayoutInfo)
           => trace = << >> /\ emitted = << >> /\ fault = "none" /\ alive

\* a SysEx of 5 bytes arrived while a confirmed layout other than the initial
\* one was current; that layout is still current and nothing was printed
C8_Witness ==
    /\ last_op.op = "handle_midi_sysex"
    /\ last_op.sz = 5
    /\ current_layout = "ProgrammerLayout"
    /\ trace = << >>
    /\ fault = "none"

\* the operations C9 lists: they write SysEx messages
SysexWriters ==
    { "begin_using_device", "set_layout", "set_device_mode", "all_pads_off",
      "all_pads_on", "scroll_text" }

\* header ++ command ++ payload ++ F7: the length is 6 + 1 + len(payload) + 1
Enveloped(m) ==
    /\ Len(m) >= Len(sysex_header) + 2
    /\ SubSeq(m, 1, Len(sysex_header)) = sysex_header
    /\ m[Len(m)] = SysexEnd

\* C9: message envelope.  Every message written by the layout query,
\* set_layout, set_device_mode, all_pads_off, all_pads_on and scroll_text
\* starts with F0 00 20 29 02 0E and ends with F7, with at least the command
\* byte between them.
C9_Envelope ==
    last_op.op \in SysexWriters => \A m \in Messages(emitted) : Enveloped(m)

\* C10: a light_pad call with a colour outside 0..127 leaves the registry as
\* it was and writes no message.
C10_ColorRejected ==
    [][ (last_op'.op = "light_pad" /\ last_op'.color \notin 0..127)
           => (pad_map' = pad_map /\ emitted' = << >>) ]_vars

\* the notes the table of a layout holds: none for a layout without table
NotesOfLayout(l) ==
    IF l \in LayoutsWithTable
    THEN { VecAt(layout_xy_note_map, xy_note_index(LayoutValue(l), col, row))
             : col \in 0..7, row \in 0..7 }
    ELSE { }

\* the coordinates of the 8x8 grid
RealCoordinates == { << col, row >> : col \in 0..7, row \in 0..7 }

\* C11: the lookup of a note that the table of the current layout does not
\* hold gives a result that is no coordinate of the grid: after every note-on
\* (velocity not 0) for such a note, the coordinate printed is none of the 64
\* real ones, in particular not (0,0).
C11_NoCoordinate ==
    (/\ last_op.op = "handle_midi_note_on_message"
     /\ last_op.velocity # 0
     /\ last_op.note_number \notin NotesOfLayout(current_layout))
        => \A k \in 1..Len(trace) :
               trace[k].text = "xy" => << trace[k].a, trace[k].b >> \notin RealCoordinates

\* the ids build_pad_map is to register: the grid and the edge pads
GridIds == { (11 + (10 * row)) + col : row \in 0..7, col \in 0..7 }
EdgeIds == { PadIDValue[all_pad_ids[k]] : k \in 1..Len(all_pad_ids) }

\* every id inserted exactly once by build_pad_map
EachIdInsertedOnce ==
    \A i \in GridIds \cup EdgeIds :
        Cardinality({ k \in 1..Len(PadInsertions) : PadInsertions[k].id = i }) = 1

\* a build in which an id comes a second time, after or before the others
CollidingBuildsAbort ==
    \A i \in { 11, 88, 90, 1, 108 } :
        /\ ~InsertAll(Append(PadInsertions, EdgePad(i))).ok
        /\ ~InsertAll(<< EdgePad(i) >> \o PadInsertions).ok

\* C12: after build_pad_map the registry holds exactly 105 pads, the 64 grid
\* pads with ids 11 + 10*row + col and the 41 edge pads (shift included),
\* every id inserted once; and a build in which an id comes a second time
\* (grid ids 11 and 88, edge ids 90, 1 and 108) aborts.
C12_PadSetCardinality ==
    /\ build_pad_map.ok
    /\ Cardinality(DOMAIN build_pad_map.map) = 105
    /\ DOMAIN build_pad_map.map = GridIds \cup EdgeIds
    /\ Cardinality(GridIds) = 64 /\ Cardinality(EdgeIds) = 41 /\ GridIds \cap EdgeIds = { }
    /\ EachIdInsertedOnce
    /\ CollidingBuildsAbort
    /\ DOMAIN pad_map = DOMAIN build_pad_map.map
    /\ Cardinality(DOMAIN pad_map) = 105

\* the registry as built is in use: the process is alive after construction,
\* a grid pad (id 11) and the shift pad (id 90) have been lit through it
C12_Witness ==
    /\ alive
    /\ Cardinality(DOMAIN pad_map) = 105
    /\ pad_map[11][1] = 5
    /\ pad_map[90][1] = 5

\* ids no pad is registered under
UnknownIds == { 0, 9, 99, 100, 109, 127, 200 }

\* C13: the registry never grows or shrinks.  In every reachable state it
\* holds exactly the 105 ids it was built with; the lookup of an id that is
\* not registered finds nothing, and light_pad and pad_off on such an id do
\* nothing: no pad created, no pad changed, no message written.  Every such
\* call made wrote nothing.
C13_RegistryFixed ==
    /\ DOMAIN pad_map = GridIds \cup EdgeIds
    /\ \A id \in UnknownIds :
          /\ id \notin GridIds \cup EdgeIds
          /\ ~pad_by_id(id)
          /\ pad_off(id) = { Quiet }
          /\ \A c \in ColorInputs, m \in ColorModes : light_pad(id, c, m) = { Quiet }
    /\ \A r \in all_pads_off \cup all_pads_on(5) : DOMAIN r.pads = DOMAIN pad_map
    /\ (last_op.op \in { "light_pad", "pad_off" } /\ last_op.pad_id \notin GridIds \cup EdgeIds)
           => emitted = << >>

\* light_pad was called with id 0, which is not registered, after pad 11 had
\* been lit: nothing was written and pad 11 is as it was
C13_Witness ==
    /\ last_op.op = "light_pad"
    /\ last_op.pad_id = 0
    /\ emitted = << >>
    /\ pad_map[11] = << 5, "Pulsing" >>
    /\ Cardinality(DOMAIN pad_map) = 105

\* header, 0x03, (0x00, n, 13) for n = 1..31, 0xF7
BulkClearMessage ==
    << 240, 0, 32, 41, 2, 14, 3 >> \o
    << 0, 1, 13 >> \o << 0, 2, 13 >> \o << 0, 3, 13 >> \o << 0, 4, 13 >> \o
    << 0, 5, 13 >> \o << 0, 6, 13 >> \o << 0, 7, 13 >> \o << 0, 8, 13 >> \o
    << 0, 9, 13 >> \o << 0, 10, 13 >> \o << 0, 11, 13 >> \o << 0, 12, 13 >> \o
    << 0, 13, 13 >> \o << 0, 14, 13 >> \o << 0, 15, 13 >> \o << 0, 16, 13 >> \o
    << 0, 17, 13 >> \o << 0, 18, 13 >> \o << 0, 19, 13 >> \o << 0, 20, 13 >> \o
    << 0, 21, 13 >> \o << 0, 22, 13 >> \o << 0, 23, 13 >> \o << 0, 24, 13 >> \o
    << 0, 25, 13 >> \o << 0, 26, 13 >> \o << 0, 27, 13 >> \o << 0, 28, 13 >> \o
    << 0, 29, 13 >> \o << 0, 30, 13 >> \o << 0, 31, 13 >> \o
    << 247 >>

\* C14: idempotent clear.  In every state all_pads_off has one outcome: it
\* writes the fixed message header, 0x03, (0x00, n, 13) for n = 1..31, 0xF7,
\* and leaves the layout and every pad record as they are; every
\* all_pads_off made wrote exactly that message.
C14_IdempotentClear ==
    /\ all_pads_off = { [Quiet EXCEPT !.emitted = << DawWrite(BulkClearMessage) >>] }
    /\ \A r \in all_pads_off : r.pads = pad_map
    /\ last_op.op = "all_pads_off" => emitted = << DawWrite(BulkClearMessage) >>

\* all_pads_off was called while pad 11 was lit pulsing in colour 5: the
\* fixed message of 101 bytes was written and the record of pad 11 still
\* holds colour 5, pulsing
C14_Witness ==
    /\ last_op.op = "all_pads_off"
    /\ Len(emitted) = 1
    /\ Len(emitted[1].bytes) = 101
    /\ pad_map[11] = << 5, "Pulsing" >>

\* the position of the first text byte in the message of scroll_text
TextStart == Len(sysex_header) + 4

\* C15: scrolling text is 7-bit clean.  In the first message written by every
\* scroll_text made, the byte at the place of each character is the
\* character masked with 0x7F, and no byte after the header and before the
\* last byte has its top bit set.
C15_SevenBitClean ==
    last_op.op = "scroll_text" =>
        /\ Len(emitted) >= 1
        /\ \A i \in 1..Len(last_op.txt) :
               emitted[1].bytes[TextStart + i - 1] = BitAnd(last_op.txt[i], 127)
        /\ \A k \in (Len(sysex_header) + 1)..(Len(emitted[1].bytes) - 1) :
               emitted[1].bytes[k] < 128

\* C16: one message when speed = 0, two when speed is not 0; the first
\* carries the text, the second is exactly header, 0x32, color, loop_flag,
\* speed_byte, 0xF7, and no write went outside the message buffer; for every
\* scroll_text made, the empty text included.
C16_SpeedMessage ==
    last_op.op = "scroll_text" =>
        /\ fault = "none" /\ alive
        /\ Len(emitted) = (IF last_op.speed = 0 THEN 1 ELSE 2)
        /\ Len(emitted[1].bytes) = Len(sysex_header) + 3 + Len(last_op.txt) + 1
        /\ last_op.speed # 0 =>
               emitted[2].bytes = sysex_header \o << 50, Byte(last_op.color),
                                                    IF last_op.loop THEN 1 ELSE 0,
                                                    SpeedByte(last_op.speed), SysexEnd >>

\* C17: layout select wire format.  In every state, for every layout and
\* every page 0..127, set_layout writes exactly one message: header, 0x00,
\* the layout's index, the page, 0x00, 0xF7; layout index 5 with page 7 gives
\* F0 00 20 29 02 0E 00 05 07 00 F7; every set_layout made wrote that form.
C17_LayoutSelectFormat ==
    /\ \A i \in 1..Len(AllLayouts), page \in 0..127 :
           \A r \in set_layout(AllLayouts[i], page) :
               r.emitted = << DawWrite(<< 240, 0, 32, 41, 2, 14, 0, i - 1, page, 0, 247 >>) >>
    /\ \A r \in set_layout(AllLayouts[6], 7) :
           r.emitted = << DawWrite(<< 240, 0, 32, 41, 2, 14, 0, 5, 7, 0, 247 >>) >>
    /\ last_op.op = "set_layout" =>
           /\ Len(emitted) = 1
           /\ emitted[1].bytes = << 240, 0, 32, 41, 2, 14, 0, LayoutValue(last_op.l),
                                     last_op.page, 0, 247 >>

\* set_layout was called for the layout of index 5 with page 7 and wrote
\* F0 00 20 29 02 0E 00 05 07 00 F7
C17_Witness ==
    /\ last_op.op = "set_layout"
    /\ LayoutValue(last_op.l) = 5
    /\ last_op.page = 7
    /\ emitted = << DawWrite(<< 240, 0, 32, 41, 2, 14, 0, 5, 7, 0, 247 >>) >>

\* C18: clear is set(0, Static).  In every state, so for every prior pad
\* state, and for every id, registered or not, pad_off(id) has exactly the
\* outcomes of light_pad(id, 0, Static): the same registry, the same message.
C18_ClearIsSetZero ==
    \A id \in GridIds \cup EdgeIds \cup UnknownIds :
        pad_off(id) = light_pad(id, 0, "Static")

\* pad_off was called on pad 11 while the shift pad was lit: pad 11 is dark
\* and static, and the message (11, 0, 0) was written
C18_Witness ==
    /\ last_op.op = "pad_off"
    /\ last_op.pad_id = 11
    /\ pad_map[11] = << 0, "Static" >>
    /\ pad_map[90] = << 5, "Pulsing" >>
    /\ emitted = << DawWrite(<< 11, 0, 0 >>) >>

\* the inverse-table slots of all (layout, note) pairs
AllInverseSlots ==
    { note_xy_index(l, n) : l \in 0..(Len(AllLayouts) - 1), n \in 0..127 }

\* C19: inverse index scheme.  The slot of (layout, note) is layout * 128 +
\* note: for the current layout and every note 0..127; a layout with a table
\* has all its slots inside the table; and no two of the (layout, note)
\* pairs share a slot.
C19_InverseIndexScheme ==
    /\ \A n \in 0..127 :
           /\ note_xy_index(LayoutValue(current_layout), n)
                 = (LayoutValue(current_layout) * 128) + n
           /\ current_layout \in LayoutsWithTable
                 => InVec(layout_note_xy_map, note_xy_index(LayoutValue(current_layout), n))
    /\ Cardinality(AllInverseSlots) = Len(AllLayouts) * 128

\* C20: garbled inbound SysEx is ignored.  No handle_midi_sysex call whose
\* message has at least 6 bytes, the first 6 of them not F0 00 20 29 02 0E,
\* changes current_layout.
C20_GarbledIgnored ==
    [][ (/\ last_op'.op = "handle_midi_sysex"
         /\ last_op'.sz >= Len(sysex_header)
         /\ SubSeq(last_op'.raw_bytes, 1, Len(sysex_header)) # sysex_header)
           => current_layout' = current_layout ]_vars

\* C21: coordinate lookup stays in bounds.  After every note-on with a
\* velocity other than 0, under whatever layout the inbound SysEx messages
\* have made current, the index note_to_xy read lies inside the inverse
\* table, and no read outside a vector happened.
C21_LookupInBounds ==
    (last_op.op = "handle_midi_note_on_message" /\ last_op.velocity # 0)
        => /\ InVec(layout_note_xy_map,
                    note_xy_index(LayoutValue(current_layout), last_op.note_number))
           /\ fault = "none"
           /\ alive

\* the messages with command byte 0x0E that set_device_mode writes: the
\* Live/Programmer toggles
LiveProgrammerToggles ==
    { m \in UNION { Messages(r.emitted) : r \in UNION { set_device_mode(md) : md \in DeviceModes } } :
        m[Len(sysex_header) + 1] = 14 }

\* C22: an all-pad fill never switches the device mode.  The message written
\* by every all_pads_on made is neither header, 0x0E, 0x00, 0xF7 nor header,
\* 0x0E, 0x01, 0xF7, the two toggle messages set_device_mode writes.
C22_FillIsNoModeSwitch ==
    last_op.op = "all_pads_on" =>
        /\ LiveProgrammerToggles = { << 240, 0, 32, 41, 2, 14, 14, 0, 247 >>,
                                     << 240, 0, 32, 41, 2, 14, 14, 1, 247 >> }
        /\ Messages(emitted) \cap LiveProgrammerToggles = { }

\* the layout query, enable DAW mode, select the Session layout with page 0
StartUpSequence ==
    << Write(<< 240, 0, 32, 41, 2, 14, 0, 247 >>),
       Write(<< 240, 0, 32, 41, 2, 14, 16, 1, 247 >>),
       DawWrite(<< 240, 0, 32, 41, 2, 14, 0, 0, 0, 0, 247 >>) >>

\* C23: start-up sequence.  current_layout is SessionLayout after
\* construction; every begin_using_device hands out exactly the layout query,
\* the enable-DAW-mode message and the layout-select message for Session
\* with page 0, in this order, and leaves current_layout as it is; and no
\* step other than an inbound SysEx changes current_layout.
C23_StartUpSequence ==
    /\ current_layout = "SessionLayout"
    /\ [][ /\ last_op'.op = "begin_using_device"
                => (emitted' = StartUpSequence /\ current_layout' = current_layout)
           /\ last_op'.op # "handle_midi_sysex" => current_layout' = current_layout
         ]_vars

\* begin_using_device was called before any answer of the device: the three
\* messages were handed out and SessionLayout is still current
C23_Witness ==
    /\ last_op.op = "begin_using_device"
    /\ Len(emitted) = 3
    /\ emitted[1].bytes = << 240, 0, 32, 41, 2, 14, 0, 247 >>
    /\ emitted[3].bytes[8] = LayoutValue("SessionLayout")
    /\ current_layout = "SessionLayout"

\* C24: the Session table agrees with the pad registry.  After every note-on
\* (velocity not 0) for a note of the Session table while SessionLayout is
\* current, the coordinate (x, y) printed satisfies note = 11 + 10*(7 - y) + x,
\* and x is the column of the grid pad registered under the id equal to the
\* note and y its mirrored row; note 0x33 prints (0,3).
C24_SessionAgreesWithRegistry ==
    (/\ last_op.op = "handle_midi_note_on_message"
     /\ last_op.velocity # 0
     /\ current_layout = "SessionLayout"
     /\ last_op.note_number \in NotesOfLayout("SessionLayout"))
        => /\ Len(trace) = 2
           /\ trace[2].text = "xy"
           /\ last_op.note_number = (11 + (10 * (7 - trace[2].b))) + trace[2].a
           /\ trace[2].a = build_pad_map.map[last_op.note_number].col
           /\ trace[2].b = 7 - build_pad_map.map[last_op.note_number].row
           /\ last_op.note_number = 51 => (trace[2].a = 0 /\ trace[2].b = 3)

====
